---- MODULE Spec2Model ----
(***************************************************************************)
(* A model of the goreload Reloader: the subscriber registry (subscribe,   *)
(* the release closure, Notify, Close) and the server-sent-events Handler. *)
(*                                                                         *)
(* Granularity.  The Reloader's fields are read and written only with      *)
(* r.mu held, and no critical section blocks or does I/O, so a critical    *)
(* section (r.mu.Lock() to the deferred Unlock) is one step, taken when    *)
(* the mutex is free.  What a task does outside the mutex (the handler's   *)
(* writes and its select, watchCancel(), entering sync.Once) is a step of  *)
(* its own, so every interleaving of those with the critical sections of   *)
(* the other tasks is explored.                                           *)
(*                                                                         *)
(* Spec runs the registry under direct callers of subscribe, the release   *)
(* closures, Notify and Close; SpecHandlers runs the streaming handlers    *)
(* with callers of Notify and Close; SpecUncancelled is the latter with no *)
(* request cancelled and the running goroutines scheduled fairly.          *)
(* SpecLocks is Spec with Notify taken statement by statement, the mutex   *)
(* held from its Lock to its Unlock.                                       *)
(*                                                                         *)
(* The watcher (Start, its goroutine, directoryFingerprint) reads a tree   *)
(* of files that changes under it.  A read of the tree is one step: the    *)
(* trees are flat and a change rewrites the tree at once, so a walk never  *)
(* sees half a change.  SpecWatcher runs the watchers with callers of      *)
(* Start, subscribe and Close; SpecShutdown is the watchers under a        *)
(* Close() that follows every Start(), scheduled fairly; SpecTerminal and  *)
(* SpecReload put one watcher next to the streaming handlers;              *)
(* SpecFingerprint runs directoryFingerprint over trees whose file names   *)
(* hold the separators of the hashed text.                                 *)
(***************************************************************************)
EXTENDS Integers, Sequences, FiniteSets

\* ---------------------------------------------------------------- bounds
NumHandlers == 2    \* concurrent invocations of the streaming handler
NumCallers  == 2    \* tasks that call the Reloader's methods directly
MaxCalls    == 5    \* method calls the callers make in total, on the registry alone
MaxBroadcasts == 2  \* Notify and Close calls made in total while handlers run
NumWatchers == 2    \* Start() calls made on the Reloader
MaxChanges  == 2    \* changes made to the watched tree
MaxFiles    == 2    \* entries of a tree given to directoryFingerprint

\* ------------------------------------------------------ program constants
ChanCap         == 1      \* make(chan struct{}, 1)
StatusOK        == 200    \* implicit status of the first successful write
StatusGone      == 410    \* http.StatusGone
StatusNotAllowed == 405   \* http.StatusMethodNotAllowed
StatusInternal  == 500    \* http.StatusInternalServerError

Handlers == 1..NumHandlers
Callers  == (NumHandlers + 1)..(NumHandlers + NumCallers)
Tasks    == Handlers \cup Callers
NoTask   == 0      \* sync.Mutex unlocked
NoSub    == 0      \* no subscription
NoID     == -1     \* the no-op release has no id
NoStatus == 0      \* no status written yet
NoWatcher == 0     \* r.watchCancel == nil
Methods  == {"GET", "POST"}

VARIABLES
    closed,       \* Reloader.closed
    nextID,       \* Reloader.nextID
    clients,      \* Reloader.clients: identifier -> channel
    watchCancel,  \* Reloader.watchCancel: NoWatcher, else the watcher it cancels
    cancelled,    \* the watcher contexts that have been cancelled
    mu,           \* Reloader.mu: the task holding it, or NoTask
    subs,         \* what each subscribe() call returned: the closure's id and once, and whether ch is nil
    chans,        \* the channel made by each subscribe() call that made one
    panicked,     \* a close of a closed channel or a send on one has happened
    pc,           \* where each task is
    cur,          \* the subscription a task's call is about (a handler: its own)
    status,       \* the status code each handler's response carries, NoStatus if none yet
    out,          \* what each handler wrote to the response body
    callsLeft,    \* method calls the callers may still make
    ret,          \* what the caller's call that returned last did
    dir,          \* the directory tree behind the fs.FS given to Start
    watchers,     \* the goroutine of each Start() call: its position and locals
    changes,      \* how many times the tree has been changed
    ranging       \* the channels `range r.clients` of a running Notify has yet to visit

vars == <<closed, nextID, clients, watchCancel, cancelled, mu, subs, chans,
          panicked, pc, cur, status, out, callsLeft, ret, dir, watchers, changes,
          ranging>>

reloaderVars == <<closed, nextID, clients>>
watchVars    == <<watchCancel, cancelled>>
handlerVars  == <<status, out>>
watcherVars  == <<dir, watchers, changes>>

Range(f) == {f[x] : x \in DOMAIN f}

\* m[k] = v and delete(m, k) on a Go map
Put(m, k, v) == [i \in DOMAIN m \cup {k} |-> IF i = k THEN v ELSE m[i]]
Delete(m, k) == [i \in DOMAIN m \ {k} |-> m[i]]
EmptyMap == << >>

\* ------------------------------------------------------------- channels
\* a channel that starts with the last reload signal replayed into it
MakeChanReplayed == [buf |-> 1, closes |-> 0, sent |-> 0]

\* make(chan struct{}, 1): empty and open.  sent counts the sends Notify has
\* attempted on the channel since it was last received from.
MakeChan == [buf |-> 0, closes |-> 0, sent |-> 0]

\* a send that queues every signal instead of skipping on a full channel
TrySendQueued(c) == [c EXCEPT !.buf = @ + 1, !.sent = @ + 1]

\* select { case ch <- struct{}{}: default: }
TrySend(c) ==
    IF c.buf < ChanCap
        THEN [c EXCEPT !.buf = @ + 1, !.sent = @ + 1]
        ELSE [c EXCEPT !.sent = @ + 1]

\* a send on a closed channel panics, in a select with a default too
SendPanics(c) == c.closes > 0

\* close(ch); closing a closed channel panics
CloseChan(c) == [c EXCEPT !.closes = @ + 1]

ClosePanics(c) == c.closes > 0

\* v, ok := <-ch with a value buffered
RecvValue(c) == [c EXCEPT !.buf = @ - 1, !.sent = 0]

\* <-ch is ready with a value / with ok = false
CanRecvValue(c) == c.buf > 0
CanRecvClosed(c) == c.buf = 0 /\ c.closes > 0

\* ------------------------------------------------- directory fingerprint
\* File names and the hashed text are sequences of bytes.
Colon     == 58    \* ':'
Semicolon == 59    \* ';'
DigitZero == 48    \* '0'

\* The trees are flat: the root holds regular files and empty directories.
File(path, modTime, size) ==
    [path |-> path, isDir |-> FALSE, modTime |-> modTime, size |-> size]

Directory(path) ==
    [path |-> path, isDir |-> TRUE, modTime |-> 0, size |-> 0]

\* a tree is a set of entries with one entry per name
IsTree(d) == \A e, o \in d : e.path = o.path => e = o

\* %d of a number that is not negative
RECURSIVE Decimal(_)
Decimal(n) ==
    IF n < 10
        THEN <<DigitZero + n>>
        ELSE Decimal(n \div 10) \o <<DigitZero + (n % 10)>>

\* fs.WalkDir reads a directory sorted by file name: bytewise order
RECURSIVE Less(_, _)
Less(p, q) ==
    IF p = << >> THEN q # << >>
    ELSE IF q = << >> THEN FALSE
    ELSE IF Head(p) # Head(q) THEN Head(p) < Head(q)
    ELSE Less(Tail(p), Tail(q))

\* the entries in the order fs.WalkDir hands them to the callback
RECURSIVE WalkDir(_)
WalkDir(d) ==
    IF d = {}
        THEN << >>
        ELSE LET first == CHOOSE e \in d : \A o \in d \ {e} : Less(e.path, o.path)
             IN  <<first>> \o WalkDir(d \ {first})

\* fmt.Fprintf(hasher, "%s:%d:%d;", path, info.ModTime().UnixNano(), info.Size())
Fprintf(e) ==
    e.path \o <<Colon>> \o Decimal(e.modTime) \o <<Colon>> \o Decimal(e.size) \o <<Semicolon>>

\* the callback over the whole walk: directories are skipped, every file
\* is written to the hasher
RECURSIVE Hashed(_)
Hashed(entries) ==
    IF entries = << >>
        THEN << >>
        ELSE (IF Head(entries).isDir THEN << >> ELSE Fprintf(Head(entries)))
             \o Hashed(Tail(entries))

\* hex.EncodeToString(hasher.Sum(nil)): the digest of the text written.
\* SHA-1 is taken as injective, so a digest is known by the text it is of;
\* it is never the empty string, also for an empty text.
Sum(text) == <<text>>

\* the "" that directoryFingerprint returns next to an error, and the zero
\* value of a string
NoFingerprint == << >>

directoryFingerprint(d) == Sum(Hashed(WalkDir(d)))

\* -------------------------------------------------------------- mutex
\* r.mu.Lock() ... defer r.mu.Unlock() around a critical section
Locked == mu = NoTask /\ UNCHANGED <<mu, ranging>>

\* the subscriptions held by no handler: the callers may use them
DirectSubs == {s \in 1..Len(subs) : \A h \in Handlers : cur[h] # s}

\* Idle callers are interchangeable and so are handlers that have not
\* started: the lowest-numbered one takes the next call or request.
NextCaller(t) ==
    /\ t \in Callers
    /\ pc[t] = "idle"
    /\ \A u \in Callers : u < t => pc[u] # "idle"
    /\ callsLeft > 0

NextHandler(h) ==
    /\ h \in Handlers
    /\ pc[h] = "idle"
    /\ \A g \in Handlers : g < h => pc[g] # "idle"

\* ------------------------------------------------------------ subscribe
\* the subscription subscribe() returns on a closed Reloader: func() {}, nil
NilSub == [id |-> NoID, nilch |-> TRUE, once |-> "fresh"]

\* the subscription it returns otherwise: cancel (with id and once) and ch
LiveSub(id) == [id |-> id, nilch |-> FALSE, once |-> "fresh"]

\* a subscribe that hands out r.nextID without r.nextID++
SubscribeBodyReusingID ==
    IF closed
        THEN [nextID |-> nextID, clients |-> clients,
              subs |-> Append(subs, NilSub), chans |-> chans]
        ELSE [nextID |-> nextID,
              clients |-> Put(clients, nextID, Len(subs) + 1),
              subs |-> Append(subs, LiveSub(nextID)),
              chans |-> Put(chans, Len(subs) + 1, MakeChan)]

\* subscribe without the r.closed check
SubscribeBodyUnchecked ==
    [nextID |-> nextID + 1,
     clients |-> Put(clients, nextID, Len(subs) + 1),
     subs |-> Append(subs, LiveSub(nextID)),
     chans |-> Put(chans, Len(subs) + 1, MakeChan)]

\* the body of subscribe: the fields it leaves and what it returns
SubscribeBody ==
    IF closed
        THEN [nextID |-> nextID, clients |-> clients,
              subs |-> Append(subs, NilSub), chans |-> chans]
        ELSE [nextID |-> nextID + 1,
              clients |-> Put(clients, nextID, Len(subs) + 1),
              subs |-> Append(subs, LiveSub(nextID)),
              chans |-> Put(chans, Len(subs) + 1, MakeChan)]

subscribe ==
    /\ Locked
    /\ nextID' = SubscribeBody.nextID
    /\ clients' = SubscribeBody.clients
    /\ subs' = SubscribeBody.subs
    /\ chans' = SubscribeBody.chans
    /\ UNCHANGED <<closed, watchVars, watcherVars, panicked>>

\* a caller calls subscribe()
CallerSubscribe(t) ==
    /\ NextCaller(t)
    /\ subscribe
    /\ callsLeft' = callsLeft - 1
    /\ ret' = IF closed THEN "sub_nil" ELSE "sub"
    /\ UNCHANGED <<pc, cur, handlerVars>>

\* -------------------------------------------------------------- release
\* once.Do of the cancel closure: a later call returns at once, a first call
\* goes on to r.mu.Lock(); a call made while the first runs waits for it
OnceDo(t, s) ==
    /\ subs[s].once # "running"
    /\ IF subs[s].once = "done"
           THEN /\ pc' = [pc EXCEPT ![t] = IF t \in Handlers THEN "done" ELSE "idle"]
                /\ ret' = IF t \in Callers THEN "release_again" ELSE ret
                /\ UNCHANGED <<subs, cur>>
           ELSE /\ subs' = [subs EXCEPT ![s].once = "running"]
                /\ pc' = [pc EXCEPT ![t] = "release"]
                /\ cur' = [cur EXCEPT ![t] = s]
                /\ UNCHANGED ret

\* a caller calls the release function of a subscription that has a channel
CallerRelease(t, s) ==
    /\ NextCaller(t)
    /\ s \in DirectSubs
    /\ ~subs[s].nilch
    /\ OnceDo(t, s)
    /\ callsLeft' = callsLeft - 1
    /\ UNCHANGED <<reloaderVars, watchVars, watcherVars, mu, ranging, chans, panicked, handlerVars>>

\* a caller calls the func() {} that subscribe() returned on a closed Reloader
NoopRelease(t, s) ==
    /\ NextCaller(t)
    /\ s \in DirectSubs
    /\ subs[s].nilch
    /\ callsLeft' = callsLeft - 1
    /\ ret' = "release_noop"
    /\ UNCHANGED <<reloaderVars, watchVars, watcherVars, mu, ranging, subs, chans, panicked, pc, cur, handlerVars>>

\* the subscription whose cancel closure captured id
SubOf(id) == CHOOSE s \in 1..Len(subs) : subs[s].id = id

\* a release that closes the captured channel without looking it up first
ReleaseBodyUnchecked(id) ==
    [clients |-> Delete(clients, id),
     chans |-> [chans EXCEPT ![SubOf(id)] = CloseChan(@)],
     panics |-> ClosePanics(chans[SubOf(id)])]

\* if ch, ok := r.clients[id]; ok { close(ch); delete(r.clients, id) }
ReleaseBody(id) ==
    IF id \in DOMAIN clients
        THEN [clients |-> Delete(clients, id),
              chans |-> [chans EXCEPT ![clients[id]] = CloseChan(@)],
              panics |-> ClosePanics(chans[clients[id]])]
        ELSE [clients |-> clients, chans |-> chans, panics |-> FALSE]

\* the function once.Do runs, and once.Do's return
Release(t) ==
    /\ pc[t] = "release"
    /\ Locked
    /\ clients' = ReleaseBody(subs[cur[t]].id).clients
    /\ chans' = ReleaseBody(subs[cur[t]].id).chans
    /\ panicked' = (panicked \/ ReleaseBody(subs[cur[t]].id).panics)
    /\ subs' = [subs EXCEPT ![cur[t]].once = "done"]
    /\ pc' = [pc EXCEPT ![t] = IF t \in Handlers THEN "done" ELSE "idle"]
    /\ cur' = [cur EXCEPT ![t] = IF t \in Handlers THEN @ ELSE NoSub]
    /\ ret' = IF t \in Callers THEN "released" ELSE ret
    /\ UNCHANGED <<closed, nextID, watchVars, watcherVars, handlerVars, callsLeft>>

\* --------------------------------------------------------------- Notify
\* if r.closed { return }; for _, ch := range r.clients { select ... }
NotifyBody ==
    IF closed
        THEN [chans |-> chans, panics |-> FALSE]
        ELSE [chans |-> [s \in DOMAIN chans |->
                            IF s \in Range(clients) THEN TrySend(chans[s]) ELSE chans[s]],
              panics |-> \E s \in Range(clients) : SendPanics(chans[s])]

\* a Notify whose send is a plain ch <- struct{}{}: it waits for room
NotifyBlocking(t) ==
    /\ NextCaller(t)
    /\ Locked
    /\ closed \/ \A s \in Range(clients) : chans[s].buf < ChanCap
    /\ chans' = NotifyBody.chans
    /\ panicked' = (panicked \/ NotifyBody.panics)
    /\ callsLeft' = callsLeft - 1
    /\ ret' = IF closed THEN "notify_closed" ELSE "notified"
    /\ UNCHANGED <<reloaderVars, watchVars, watcherVars, subs, pc, cur, handlerVars>>

Notify(t) ==
    /\ NextCaller(t)
    /\ Locked
    /\ chans' = NotifyBody.chans
    /\ panicked' = (panicked \/ NotifyBody.panics)
    /\ callsLeft' = callsLeft - 1
    /\ ret' = IF closed THEN "notify_closed" ELSE "notified"
    /\ UNCHANGED <<reloaderVars, watchVars, watcherVars, subs, pc, cur, handlerVars>>

\* ------------------------------------------ Notify, statement by statement
\* r.mu.Lock(); if r.closed { return }; the range loop is set up.  Until
\* NotifyUnlock the mutex is t's and every other critical section waits.
NotifyLock(t) ==
    /\ NextCaller(t)
    /\ mu = NoTask
    /\ mu' = t
    /\ ranging' = IF closed THEN {} ELSE Range(clients)
    /\ pc' = [pc EXCEPT ![t] = "notify"]
    /\ ret' = IF closed THEN "notify_closed" ELSE "notified"
    /\ callsLeft' = callsLeft - 1
    /\ UNCHANGED <<reloaderVars, watchVars, watcherVars, subs, chans, panicked, cur,
                   handlerVars>>

\* a send that waits for room in the channel, made with the mutex held
NotifySendBlocking(t, s) ==
    /\ t \in Callers
    /\ pc[t] = "notify"
    /\ mu = t
    /\ s \in ranging
    /\ chans[s].buf < ChanCap
    /\ chans' = [chans EXCEPT ![s] = TrySend(@)]
    /\ panicked' = (panicked \/ SendPanics(chans[s]))
    /\ ranging' = ranging \ {s}
    /\ UNCHANGED <<reloaderVars, watchVars, watcherVars, mu, subs, pc, cur, handlerVars,
                   callsLeft, ret>>

\* one turn of the loop: select { case ch <- struct{}{}: default: }, made
\* with the mutex held; the map is visited in no particular order
NotifySend(t, s) ==
    /\ t \in Callers
    /\ pc[t] = "notify"
    /\ mu = t
    /\ s \in ranging
    /\ chans' = [chans EXCEPT ![s] = TrySend(@)]
    /\ panicked' = (panicked \/ SendPanics(chans[s]))
    /\ ranging' = ranging \ {s}
    /\ UNCHANGED <<reloaderVars, watchVars, watcherVars, mu, subs, pc, cur, handlerVars,
                   callsLeft, ret>>

\* the loop is over (or r.closed returned): the deferred r.mu.Unlock()
NotifyUnlock(t) ==
    /\ t \in Callers
    /\ pc[t] = "notify"
    /\ mu = t
    /\ ranging = {}
    /\ mu' = NoTask
    /\ pc' = [pc EXCEPT ![t] = "idle"]
    /\ UNCHANGED <<reloaderVars, watchVars, watcherVars, ranging, subs, chans, panicked,
                   cur, handlerVars, callsLeft, ret>>

\* ---------------------------------------------------------------- Close
\* if r.watchCancel != nil { r.watchCancel() }, before the mutex is taken
CloseCancel(t) ==
    /\ NextCaller(t)
    /\ cancelled' = IF watchCancel # NoWatcher THEN cancelled \cup {watchCancel} ELSE cancelled
    /\ pc' = [pc EXCEPT ![t] = "close"]
    /\ callsLeft' = callsLeft - 1
    /\ UNCHANGED <<reloaderVars, watchCancel, watcherVars, mu, ranging, subs, chans, panicked, cur, handlerVars, ret>>

\* a Close that forgets r.closed = true
CloseBodyNoFlag ==
    [closed |-> closed,
     clients |-> EmptyMap,
     chans |-> [s \in DOMAIN chans |->
                   IF s \in Range(clients) THEN CloseChan(chans[s]) ELSE chans[s]],
     panics |-> \E s \in Range(clients) : ClosePanics(chans[s])]

\* a Close that empties the map without closing the channels
CloseBodyNoClose ==
    IF closed
        THEN [closed |-> closed, clients |-> clients, chans |-> chans, panics |-> FALSE]
        ELSE [closed |-> TRUE, clients |-> EmptyMap, chans |-> chans, panics |-> FALSE]

\* a Close that closes the channels and leaves them in the map
CloseBodyNoDelete ==
    IF closed
        THEN [closed |-> closed, clients |-> clients, chans |-> chans, panics |-> FALSE]
        ELSE [closed |-> TRUE,
              clients |-> clients,
              chans |-> [s \in DOMAIN chans |->
                            IF s \in Range(clients) THEN CloseChan(chans[s]) ELSE chans[s]],
              panics |-> \E s \in Range(clients) : ClosePanics(chans[s])]

\* if r.closed { return }; r.closed = true;
\* for id, ch := range r.clients { close(ch); delete(r.clients, id) }
CloseBody ==
    IF closed
        THEN [closed |-> closed, clients |-> clients, chans |-> chans, panics |-> FALSE]
        ELSE [closed |-> TRUE,
              clients |-> EmptyMap,
              chans |-> [s \in DOMAIN chans |->
                            IF s \in Range(clients) THEN CloseChan(chans[s]) ELSE chans[s]],
              panics |-> \E s \in Range(clients) : ClosePanics(chans[s])]

Close(t) ==
    /\ t \in Callers
    /\ pc[t] = "close"
    /\ Locked
    /\ closed' = CloseBody.closed
    /\ clients' = CloseBody.clients
    /\ chans' = CloseBody.chans
    /\ panicked' = (panicked \/ CloseBody.panics)
    /\ pc' = [pc EXCEPT ![t] = "idle"]
    /\ ret' = IF closed THEN "close_again" ELSE "closed"
    /\ UNCHANGED <<nextID, watchVars, watcherVars, subs, cur, handlerVars, callsLeft>>

\* -------------------------------------------------------------- watcher
\* the goroutine Start() spawns, before its first statement
NewWatcher ==
    [pc |-> "start", lastFingerprint |-> NoFingerprint, lastDir |-> {}]

Watchers == 1..Len(watchers)

\* Start(dir): ctx, cancel := context.WithCancel(...); r.watchCancel = cancel;
\* go func() {...}().  The handle of an earlier Start() is overwritten.
Start(t) ==
    /\ NextCaller(t)
    /\ Len(watchers) < NumWatchers
    /\ watchers' = Append(watchers, NewWatcher)
    /\ watchCancel' = Len(watchers) + 1
    /\ callsLeft' = callsLeft - 1
    /\ ret' = "started"
    /\ UNCHANGED <<reloaderVars, cancelled, mu, ranging, subs, chans, panicked, pc, cur,
                   handlerVars, dir, changes>>

\* a watcher for which a failed first read is fatal
WatcherInitFatal(w, ok) ==
    /\ w \in Watchers
    /\ watchers[w].pc = "start"
    /\ watchers' = [watchers EXCEPT ![w] =
           IF ok THEN [@ EXCEPT !.pc = "loop",
                                !.lastFingerprint = directoryFingerprint(dir),
                                !.lastDir = dir]
                 ELSE [@ EXCEPT !.pc = "final"]]
    /\ UNCHANGED <<reloaderVars, watchVars, mu, ranging, subs, chans, panicked, pc, cur,
                   handlerVars, callsLeft, ret, dir, changes>>

\* lastFingerprint, err := directoryFingerprint(dir); an error is logged.
\* lastDir remembers the tree the stored fingerprint was read from.
WatcherInit(w, ok) ==
    /\ w \in Watchers
    /\ watchers[w].pc = "start"
    /\ watchers' = [watchers EXCEPT
           ![w].pc = "loop",
           ![w].lastFingerprint = IF ok THEN directoryFingerprint(dir) ELSE NoFingerprint,
           ![w].lastDir = IF ok THEN dir ELSE {}]
    /\ UNCHANGED <<reloaderVars, watchVars, mu, ranging, subs, chans, panicked, pc, cur,
                   handlerVars, callsLeft, ret, dir, changes>>

\* a watcher that returns on ctx.Done() with no deferred r.Notify()
WatcherCtxDoneSilent(w) ==
    /\ w \in Watchers
    /\ watchers[w].pc = "loop"
    /\ w \in cancelled
    /\ watchers' = [watchers EXCEPT ![w] = [NewWatcher EXCEPT !.pc = "exited"]]
    /\ UNCHANGED <<reloaderVars, watchVars, mu, ranging, subs, chans, panicked, pc, cur,
                   handlerVars, callsLeft, ret, dir, changes>>

\* case <-ctx.Done(): return; the deferred r.Notify() is still to run, the
\* locals are gone
WatcherCtxDone(w) ==
    /\ w \in Watchers
    /\ watchers[w].pc = "loop"
    /\ w \in cancelled
    /\ watchers' = [watchers EXCEPT ![w] = [NewWatcher EXCEPT !.pc = "final"]]
    /\ UNCHANGED <<reloaderVars, watchVars, mu, ranging, subs, chans, panicked, pc, cur,
                   handlerVars, callsLeft, ret, dir, changes>>

\* a comparison that takes every good read for a change
ComparedAlways(v, fp, tree) ==
    [v EXCEPT !.pc = "notify", !.lastFingerprint = fp, !.lastDir = tree]

\* if fp != lastFingerprint { lastFingerprint = fp; r.Notify() }
Compared(v, fp, tree) ==
    IF fp # v.lastFingerprint
        THEN [v EXCEPT !.pc = "notify", !.lastFingerprint = fp, !.lastDir = tree]
        ELSE v

\* case <-ticker.C: fp, err := directoryFingerprint(dir), and what the tick
\* does with it: a failed read goes to the logger, a good one is compared
WatcherTick(w, ok) ==
    /\ w \in Watchers
    /\ watchers[w].pc = "loop"
    /\ watchers' = [watchers EXCEPT ![w] =
           IF ok THEN Compared(@, directoryFingerprint(dir), dir)
                 ELSE [@ EXCEPT !.pc = "failed"]]
    /\ UNCHANGED <<reloaderVars, watchVars, mu, ranging, subs, chans, panicked, pc, cur,
                   handlerVars, callsLeft, ret, dir, changes>>

\* a watcher that gives up on a failed scan
WatcherContinueReturning(w) ==
    /\ w \in Watchers
    /\ watchers[w].pc = "failed"
    /\ watchers' = [watchers EXCEPT ![w] = [NewWatcher EXCEPT !.pc = "final"]]
    /\ UNCHANGED <<reloaderVars, watchVars, mu, ranging, subs, chans, panicked, pc, cur,
                   handlerVars, callsLeft, ret, dir, changes>>

\* r.logger.Error("... failed to scan directory", ...); continue
WatcherContinue(w) ==
    /\ w \in Watchers
    /\ watchers[w].pc = "failed"
    /\ watchers' = [watchers EXCEPT ![w].pc = "loop"]
    /\ UNCHANGED <<reloaderVars, watchVars, mu, ranging, subs, chans, panicked, pc, cur,
                   handlerVars, callsLeft, ret, dir, changes>>

\* r.Notify() as the watcher calls it
NotifyFrom(w, from, to) ==
    /\ w \in Watchers
    /\ watchers[w].pc = from
    /\ Locked
    /\ chans' = NotifyBody.chans
    /\ panicked' = (panicked \/ NotifyBody.panics)
    /\ watchers' = [watchers EXCEPT ![w].pc = to]
    /\ UNCHANGED <<reloaderVars, watchVars, subs, pc, cur, handlerVars, callsLeft, ret,
                   dir, changes>>

\* the r.Notify() of a tick that found a change
WatcherNotify(w) == NotifyFrom(w, "notify", "loop")

\* defer r.Notify(), run as the goroutine returns
WatcherFinalNotify(w) == NotifyFrom(w, "final", "exited")

\* a file of the watched tree is written, added, removed or renamed
TreeChange(d) ==
    /\ changes < MaxChanges
    /\ IsTree(d)
    /\ d # dir
    /\ dir' = d
    /\ changes' = changes + 1
    /\ UNCHANGED <<reloaderVars, watchVars, mu, ranging, subs, chans, panicked, pc, cur,
                   handlerVars, callsLeft, ret, watchers>>

\* ------------------------------------------------- a caller's receive
\* a caller receives from the channel of a subscription it holds
CallerRecv(t, s) ==
    /\ NextCaller(t)
    /\ s \in DirectSubs
    /\ ~subs[s].nilch
    /\ CanRecvValue(chans[s])
    /\ chans' = [chans EXCEPT ![s] = RecvValue(@)]
    /\ callsLeft' = callsLeft - 1
    /\ ret' = "recv"
    /\ UNCHANGED <<reloaderVars, watchVars, watcherVars, mu, ranging, subs, panicked, pc, cur, handlerVars>>

\* -------------------------------------------------------------- Handler
\* a handler that subscribes whatever the method and the transport are
HandlerStartSubscribing(h, method, canFlush) ==
    /\ NextHandler(h)
    /\ IF method # "GET"
           THEN status' = [status EXCEPT ![h] = StatusNotAllowed]
           ELSE IF ~canFlush
           THEN status' = [status EXCEPT ![h] = StatusInternal]
           ELSE UNCHANGED status
    /\ pc' = [pc EXCEPT ![h] = "subscribe"]
    /\ UNCHANGED <<reloaderVars, watchVars, watcherVars, mu, ranging, subs, chans, panicked, cur, out, callsLeft, ret>>

\* the method check, the http.Flusher check and the three headers
HandlerStart(h, method, canFlush) ==
    /\ NextHandler(h)
    /\ IF method # "GET"
           THEN /\ status' = [status EXCEPT ![h] = StatusNotAllowed]
                /\ pc' = [pc EXCEPT ![h] = "done"]
           ELSE IF ~canFlush
           THEN /\ status' = [status EXCEPT ![h] = StatusInternal]
                /\ pc' = [pc EXCEPT ![h] = "done"]
           ELSE /\ pc' = [pc EXCEPT ![h] = "subscribe"]
                /\ UNCHANGED status
    /\ UNCHANGED <<reloaderVars, watchVars, watcherVars, mu, ranging, subs, chans, panicked, cur, out, callsLeft, ret>>

\* a handler that does not look at the channel subscribe() returned
HandlerSubscribeUnchecked(h) ==
    /\ h \in Handlers
    /\ pc[h] = "subscribe"
    /\ subscribe
    /\ cur' = [cur EXCEPT ![h] = Len(subs) + 1]
    /\ pc' = [pc EXCEPT ![h] = "connect"]
    /\ UNCHANGED <<status, out, callsLeft, ret>>

\* cancel, ch := r.subscribe(); if ch == nil { w.WriteHeader(410); return };
\* defer cancel()
HandlerSubscribe(h) ==
    /\ h \in Handlers
    /\ pc[h] = "subscribe"
    /\ subscribe
    /\ cur' = [cur EXCEPT ![h] = Len(subs) + 1]
    /\ IF SubscribeBody.subs[Len(subs) + 1].nilch
           THEN /\ status' = [status EXCEPT ![h] = StatusGone]
                /\ pc' = [pc EXCEPT ![h] = "done"]
           ELSE /\ pc' = [pc EXCEPT ![h] = "connect"]
                /\ UNCHANGED status
    /\ UNCHANGED <<out, callsLeft, ret>>

\* fmt.Fprint(w, ": connected\n\n") and the flush; a failed write returns
HandlerConnect(h, ok) ==
    /\ h \in Handlers
    /\ pc[h] = "connect"
    /\ IF ok
           THEN /\ status' = [status EXCEPT ![h] = StatusOK]
                /\ out' = [out EXCEPT ![h].connected = TRUE]
                /\ pc' = [pc EXCEPT ![h] = "loop"]
           ELSE /\ pc' = [pc EXCEPT ![h] = "cancel"]
                /\ UNCHANGED <<status, out>>
    /\ UNCHANGED <<reloaderVars, watchVars, watcherVars, mu, ranging, subs, chans, panicked, cur, callsLeft, ret>>

\* a handler that returns on a cancelled request without running cancel()
HandlerCtxDoneLeaking(h) ==
    /\ h \in Handlers
    /\ pc[h] = "loop"
    /\ pc' = [pc EXCEPT ![h] = "done"]
    /\ UNCHANGED <<reloaderVars, watchVars, watcherVars, mu, ranging, subs, chans, panicked, cur, handlerVars, callsLeft, ret>>

\* case <-rq.Context().Done(): return
HandlerCtxDone(h) ==
    /\ h \in Handlers
    /\ pc[h] = "loop"
    /\ pc' = [pc EXCEPT ![h] = "cancel"]
    /\ UNCHANGED <<reloaderVars, watchVars, watcherVars, mu, ranging, subs, chans, panicked, cur, handlerVars, callsLeft, ret>>

\* a handler that goes on to write without taking the signal off the channel
HandlerRecvPeeking(h) ==
    /\ h \in Handlers
    /\ pc[h] = "loop"
    /\ \/ /\ CanRecvValue(chans[cur[h]])
          /\ pc' = [pc EXCEPT ![h] = "write"]
       \/ /\ CanRecvClosed(chans[cur[h]])
          /\ pc' = [pc EXCEPT ![h] = "cancel"]
    /\ UNCHANGED <<reloaderVars, watchVars, watcherVars, mu, ranging, subs, chans, panicked, cur,
                   handlerVars, callsLeft, ret>>

\* case _, ok := <-ch: if !ok { return }
HandlerRecv(h) ==
    /\ h \in Handlers
    /\ pc[h] = "loop"
    /\ \/ /\ CanRecvValue(chans[cur[h]])
          /\ chans' = [chans EXCEPT ![cur[h]] = RecvValue(@)]
          /\ pc' = [pc EXCEPT ![h] = "write"]
       \/ /\ CanRecvClosed(chans[cur[h]])
          /\ pc' = [pc EXCEPT ![h] = "cancel"]
          /\ UNCHANGED chans
    /\ UNCHANGED <<reloaderVars, watchVars, watcherVars, mu, ranging, subs, panicked, cur, handlerVars, callsLeft, ret>>

\* fmt.Fprint(w, "data: reload\n\n") and the flush; a failed write returns
HandlerWrite(h, ok) ==
    /\ h \in Handlers
    /\ pc[h] = "write"
    /\ IF ok
           THEN /\ out' = [out EXCEPT ![h].events = @ + 1]
                /\ pc' = [pc EXCEPT ![h] = "loop"]
           ELSE /\ pc' = [pc EXCEPT ![h] = "cancel"]
                /\ UNCHANGED out
    /\ UNCHANGED <<reloaderVars, watchVars, watcherVars, mu, ranging, subs, chans, panicked, cur, status, callsLeft, ret>>

\* the deferred cancel() runs as the handler returns
HandlerCancel(h) ==
    /\ h \in Handlers
    /\ pc[h] = "cancel"
    /\ OnceDo(h, cur[h])
    /\ UNCHANGED <<reloaderVars, watchVars, watcherVars, mu, ranging, chans, panicked, handlerVars, callsLeft>>

\* ------------------------------------------------------- specification
\* New(config), with no handler running and no call made yet
New ==
    /\ closed = FALSE
    /\ nextID = 0
    /\ clients = EmptyMap
    /\ watchCancel = NoWatcher
    /\ cancelled = {}
    /\ mu = NoTask
    /\ subs = << >>
    /\ chans = EmptyMap
    /\ panicked = FALSE
    /\ pc = [t \in Tasks |-> "idle"]
    /\ cur = [t \in Tasks |-> NoSub]
    /\ status = [h \in Handlers |-> NoStatus]
    /\ out = [h \in Handlers |-> [connected |-> FALSE, events |-> 0]]
    /\ ret = "none"
    /\ watchers = << >>
    /\ changes = 0
    /\ ranging = {}

Init ==
    /\ dir = {}
    /\ New
    /\ callsLeft = MaxCalls

\* The registry under callers of subscribe, release, Notify, Close and receive.
Next ==
    \/ \E t \in Callers : CallerSubscribe(t)
    \/ \E t \in Callers : \E s \in 1..Len(subs) : CallerRelease(t, s)
    \/ \E t \in Callers : \E s \in 1..Len(subs) : NoopRelease(t, s)
    \/ \E t \in Callers : Release(t)
    \/ \E t \in Callers : Notify(t)
    \/ \E t \in Callers : CloseCancel(t)
    \/ \E t \in Callers : Close(t)
    \/ \E t \in Callers : \E s \in 1..Len(subs) : CallerRecv(t, s)

Spec == Init /\ [][Next]_vars

\* The streaming handlers, with callers of Notify and Close.
NextHandlers ==
    \/ \E h \in Handlers : \E m \in Methods : \E f \in BOOLEAN : HandlerStart(h, m, f)
    \/ \E h \in Handlers : HandlerSubscribe(h)
    \/ \E h \in Handlers : \E ok \in BOOLEAN : HandlerConnect(h, ok)
    \/ \E h \in Handlers : HandlerCtxDone(h)
    \/ \E h \in Handlers : HandlerRecv(h)
    \/ \E h \in Handlers : \E ok \in BOOLEAN : HandlerWrite(h, ok)
    \/ \E h \in Handlers : HandlerCancel(h)
    \/ \E h \in Handlers : Release(h)
    \/ \E t \in Callers : Notify(t)
    \/ \E t \in Callers : CloseCancel(t)
    \/ \E t \in Callers : Close(t)

InitHandlers ==
    /\ New
    /\ dir = {}
    /\ callsLeft = MaxBroadcasts

SpecHandlers == InitHandlers /\ [][NextHandlers]_vars

\* The handlers of the shutdown claim: no request context is ever cancelled
\* and every stream is opened (the connected line is written), so a handler
\* leaves its loop only through its channel or a failed event write.
\* Requests and calls need not arrive, but the goroutines that are running
\* are scheduled: while a started handler or a called Close can take a step,
\* one of them does.
HandlerStep(h) ==
    \/ HandlerSubscribe(h)
    \/ HandlerConnect(h, TRUE)
    \/ HandlerRecv(h)
    \/ \E ok \in BOOLEAN : HandlerWrite(h, ok)
    \/ HandlerCancel(h)
    \/ Release(h)

Running ==
    \/ \E h \in Handlers : HandlerStep(h)
    \/ \E t \in Callers : Close(t)

NextUncancelled ==
    \/ \E h \in Handlers : \E m \in Methods : \E f \in BOOLEAN : HandlerStart(h, m, f)
    \/ \E h \in Handlers : HandlerStep(h)
    \/ \E t \in Callers : Notify(t)
    \/ \E t \in Callers : CloseCancel(t)
    \/ \E t \in Callers : Close(t)

SpecUncancelled ==
    /\ InitHandlers
    /\ [][NextUncancelled]_vars
    /\ WF_vars(Running)

\* The watchers, with callers of Start, subscribe and Close and a tree
\* that changes under them.  The end-to-end scenario's tree: one file a.txt
\* of size 3, later 5, modified at T0 = 1.
ATxt == <<97, 46, 116, 120, 116>>

WatchedTrees == {{File(ATxt, 1, 3)}, {File(ATxt, 1, 5)}}

InitWatcher ==
    /\ New
    /\ dir = {File(ATxt, 1, 3)}
    /\ callsLeft = NumWatchers + 2

WatcherStep(w) ==
    \/ \E ok \in BOOLEAN : WatcherInit(w, ok)
    \/ \E ok \in BOOLEAN : WatcherTick(w, ok)
    \/ WatcherContinue(w)
    \/ WatcherNotify(w)
    \/ WatcherCtxDone(w)
    \/ WatcherFinalNotify(w)

NextWatcher ==
    \/ \E t \in Callers : Start(t)
    \/ \E w \in 1..NumWatchers : WatcherStep(w)
    \/ \E d \in WatchedTrees : TreeChange(d)
    \/ \E t \in Callers : CallerSubscribe(t)
    \/ \E t \in Callers : CloseCancel(t)
    \/ \E t \in Callers : Close(t)

SpecWatcher == InitWatcher /\ [][NextWatcher]_vars

\* The registry with Notify taken statement by statement: its lock, each
\* send of its loop and its unlock are steps, between which the other
\* callers run whatever needs no mutex.
NextLocks ==
    \/ \E t \in Callers : CallerSubscribe(t)
    \/ \E t \in Callers : \E s \in 1..Len(subs) : CallerRelease(t, s)
    \/ \E t \in Callers : Release(t)
    \/ \E t \in Callers : NotifyLock(t)
    \/ \E t \in Callers : \E s \in DOMAIN chans : NotifySend(t, s)
    \/ \E t \in Callers : NotifyUnlock(t)
    \/ \E t \in Callers : CloseCancel(t)
    \/ \E t \in Callers : Close(t)
    \/ \E t \in Callers : \E s \in 1..Len(subs) : CallerRecv(t, s)

SpecLocks == Init /\ [][NextLocks]_vars

\* Close() has been called: it is between its two halves, or it has run
CloseCalled == closed \/ \E t \in Callers : pc[t] = "close"

\* The watchers under a Close() that comes after every Start().  The
\* goroutines are scheduled: a watcher that can take a step takes one, a
\* select whose ctx.Done() case is ready again and again takes it in the end
\* (select picks among its ready cases at random), and a Close() that has
\* been called runs.
NextShutdown ==
    \/ \E t \in Callers : ~CloseCalled /\ Start(t)
    \/ \E w \in 1..NumWatchers : WatcherStep(w)
    \/ \E d \in WatchedTrees : TreeChange(d)
    \/ \E t \in Callers : CloseCancel(t)
    \/ \E t \in Callers : Close(t)

FairWatchers ==
    /\ \A w \in 1..NumWatchers : WF_vars(WatcherStep(w))
    /\ \A w \in 1..NumWatchers : SF_vars(WatcherCtxDone(w))
    /\ WF_vars(\E t \in Callers : Close(t))

SpecShutdown == InitWatcher /\ [][NextShutdown]_vars /\ FairWatchers

\* End to end: one Start() on a tree that is read, one streaming client
\* whose request is a GET on a flushing writer and is not cancelled, changes
\* of the tree, and Close().  The goroutines are scheduled as in
\* SpecShutdown and SpecUncancelled, and a tick whose read succeeds comes
\* again and again.
Client == 1

InitReload ==
    /\ New
    /\ dir = {File(ATxt, 1, 3)}
    /\ callsLeft = MaxBroadcasts

NextReload ==
    \/ \E t \in Callers : Len(watchers) = 0 /\ Start(t)
    \/ \E w \in Watchers : WatcherInit(w, TRUE)
    \/ \E w \in Watchers : \E ok \in BOOLEAN : WatcherTick(w, ok)
    \/ \E w \in Watchers : WatcherContinue(w)
    \/ \E w \in Watchers : WatcherNotify(w)
    \/ \E w \in Watchers : WatcherCtxDone(w)
    \/ \E w \in Watchers : WatcherFinalNotify(w)
    \/ \E d \in WatchedTrees : TreeChange(d)
    \/ HandlerStart(Client, "GET", TRUE)
    \/ HandlerStep(Client)
    \/ \E t \in Callers : CloseCancel(t)
    \/ \E t \in Callers : Close(t)

FairReload ==
    /\ WF_vars(Running)
    /\ WF_vars(WatcherStep(1))
    /\ SF_vars(WatcherTick(1, TRUE))

SpecReload == InitReload /\ [][NextReload]_vars /\ FairReload

\* The end of a watcher under open streams: one Start() whose first read
\* succeeds, the streaming clients, and Close(), on a tree that stays as it
\* is, so that the only r.Notify() made is the deferred one.
NextTerminal ==
    \/ \E t \in Callers : Len(watchers) = 0 /\ Start(t)
    \/ \E w \in Watchers : WatcherInit(w, TRUE)
    \/ \E w \in Watchers : WatcherTick(w, TRUE)
    \/ \E w \in Watchers : WatcherCtxDone(w)
    \/ \E w \in Watchers : WatcherFinalNotify(w)
    \/ \E h \in Handlers : HandlerStart(h, "GET", TRUE)
    \/ \E h \in Handlers : HandlerStep(h)
    \/ \E t \in Callers : CloseCancel(t)
    \/ \E t \in Callers : Close(t)

\* While a running goroutine (a started handler, a called Close, the
\* watcher) can take a step, one of them does.  On a tree that stays as it
\* is a tick leaves the watcher in its select, so this is enough for it to
\* take case <-ctx.Done().
FairTerminal == WF_vars(Running \/ WatcherStep(1))

SpecTerminal == InitReload /\ [][NextTerminal]_vars /\ FairTerminal

\* directoryFingerprint over trees of at most MaxFiles entries, with names
\* that hold the separators of the hashed text: "a", "b" and "a:1:1;b".
FileNames == {<<97>>, <<98>>, <<97, Colon, 49, Colon, 49, Semicolon, 98>>}
ModTimes  == {1, 11}
Sizes     == {1, 2}

Entries ==
    {File(n, m, s) : n \in FileNames, m \in ModTimes, s \in Sizes}
        \cup {Directory(n) : n \in FileNames}

Trees == {d \in SUBSET Entries : Cardinality(d) <= MaxFiles /\ IsTree(d)}

InitFingerprint ==
    /\ New
    /\ dir \in Trees
    /\ callsLeft = 1

\* one watcher reading a tree that is rewritten under it
NextFingerprint ==
    \/ \E t \in Callers : Start(t)
    \/ \E w \in Watchers : \E ok \in BOOLEAN : WatcherInit(w, ok)
    \/ \E w \in Watchers : \E ok \in BOOLEAN : WatcherTick(w, ok)
    \/ \E w \in Watchers : WatcherContinue(w)
    \/ \E w \in Watchers : WatcherNotify(w)
    \/ \E d \in Trees : TreeChange(d)

SpecFingerprint == InitFingerprint /\ [][NextFingerprint]_vars

\* ------------------------------------------------------------- claims
Registered == Range(clients)

\* C1 (coalescing): a subscriber channel never holds more than one pending
\* signal; a channel Notify has sent to once or more since its subscriber
\* last received holds exactly one; and a receive leaves it empty.
C1_Coalescing ==
    [][\A s \in DOMAIN chans' :
          /\ chans'[s].buf <= 1
          /\ chans'[s].sent >= 1 => chans'[s].buf = 1
          /\ (s \in DOMAIN chans /\ chans'[s].buf < chans[s].buf) => chans'[s].buf = 0]_vars

C1_Witness ==
    \E s \in DOMAIN chans : chans[s].sent >= 2 /\ chans[s].buf = 1

C3_LateJoiner ==
    [][/\ \A s \in DOMAIN chans' \ DOMAIN chans : chans'[s].buf = 0
       /\ \A s \in DOMAIN chans :
             chans'[s].buf > chans[s].buf =>
                 /\ \E t \in Callers : Notify(t)
                 /\ s \in Registered
                 /\ ~closed]_vars

C3_Witness ==
    /\ ret = "sub"
    /\ \E s1, s2 \in Registered :
          /\ s1 < s2
          /\ chans[s1].buf = 1
          /\ chans[s2].buf = 0 /\ chans[s2].sent = 0

\* C4 (idempotent close): every Close leaves closed = true, an empty map and
\* no panic; a Close of a closed Reloader changes nothing of the Reloader
\* or of any channel; and no channel is ever closed twice.
C4_IdempotentClose ==
    [][/\ \A t \in Callers :
             Close(t) =>
                 /\ closed' /\ DOMAIN clients' = {} /\ ~panicked'
                 /\ closed => UNCHANGED <<closed, nextID, clients, chans, subs, panicked>>
       /\ \A s \in DOMAIN chans' : chans'[s].closes <= 1]_vars

C4_Witness ==
    /\ ret = "close_again"
    /\ closed
    /\ \E s \in DOMAIN chans : chans[s].closes = 1

\* C5 (post-close subscribe): a subscribe() on a closed Reloader returns the
\* nil channel and the no-op release, takes no identifier and adds nothing
\* to the map; calling that release changes nothing of the Reloader.
C5_PostCloseSubscribe ==
    [][/\ \A t \in Callers :
             (CallerSubscribe(t) /\ closed) =>
                 /\ subs' = Append(subs, NilSub)
                 /\ UNCHANGED <<closed, nextID, clients, chans>>
       /\ \A s \in 1..Len(subs) :
             subs[s].nilch =>
                 /\ subs'[s] = subs[s]
                 /\ (\E t \in Callers : NoopRelease(t, s)) =>
                        UNCHANGED <<closed, nextID, clients, chans, subs, panicked>>]_vars

C5_Witness ==
    /\ closed
    /\ ret = "release_noop"
    /\ \E s \in 1..Len(subs) : subs[s].nilch

\* C6 (closed implies empty): whenever closed is true the map is empty.
C6_ClosedImpliesEmpty == closed => DOMAIN clients = {}

C6_Witness ==
    /\ closed
    /\ \E s \in 1..Len(subs) : ~subs[s].nilch /\ chans[s].closes = 1
    /\ \E s \in 1..Len(subs) : subs[s].nilch

\* C7 (exactly-once channel close): no channel is closed twice and nothing
\* panics; once a subscription's release has run, or Close has, its channel
\* has been closed exactly once.
C7_ClosedExactlyOnce ==
    /\ ~panicked
    /\ \A s \in DOMAIN chans :
          /\ chans[s].closes <= 1
          /\ (subs[s].once = "done" \/ closed) => chans[s].closes = 1

C7_Witness ==
    /\ closed
    /\ ret = "release_again"
    /\ \E s \in DOMAIN chans : subs[s].once = "done" /\ chans[s].closes = 1

\* C8 (graceful shutdown): with no request context cancelled, once Close()
\* has been called every handler that has been started returns.
C8_GracefulShutdown ==
    CloseCalled ~> (\A h \in Handlers : pc[h] \in {"idle", "done"})

C8_Witness ==
    /\ closed
    /\ \A h \in Handlers : pc[h] = "loop"
    /\ \E h \in Handlers : chans[cur[h]].buf = 1
    /\ \E h \in Handlers : chans[cur[h]].buf = 0

\* C9 (scoped release): once a handler invocation has returned, the map
\* holds neither the identifier nor the channel its subscribe() made.
C9_ScopedRelease ==
    \A h \in Handlers :
        (pc[h] = "done" /\ cur[h] # NoSub) =>
            /\ subs[cur[h]].id \notin DOMAIN clients
            /\ cur[h] \notin Range(clients)

C9_Witness ==
    /\ ~closed
    /\ \E h, g \in Handlers :
          /\ pc[h] = "done" /\ cur[h] # NoSub
          /\ ~subs[cur[h]].nilch /\ subs[cur[h]].once = "done"
          /\ pc[g] = "loop" /\ cur[g] \in Range(clients)

\* C10 (gone on closed): a handler whose subscribe() runs on a closed
\* Reloader answers 410 and returns at once; a response with status 410 has
\* neither the connected line nor a reload event, and the map is empty.
C10_GoneOnClosed ==
    [][\A h \in Handlers :
          /\ (HandlerSubscribe(h) /\ closed) =>
                 /\ status'[h] = StatusGone
                 /\ pc'[h] = "done"
                 /\ out'[h] = out[h]
          /\ status'[h] = StatusGone =>
                 /\ pc'[h] = "done"
                 /\ ~out'[h].connected /\ out'[h].events = 0
                 /\ DOMAIN clients' = {}]_vars

C10_Witness ==
    \E h \in Handlers : status[h] = StatusGone /\ pc[h] = "done"

\* C11 (rejection before subscription): a request the handler rejects with
\* 405 (the method is not GET) or 500 (the writer is no http.Flusher)
\* returns in that step with the map, the identifier counter and the
\* subscriptions as they were, and a handler whose response carries 405 or
\* 500 has never called subscribe().
Rejected(h) == status[h] \in {StatusNotAllowed, StatusInternal}

C11_RejectedBeforeSubscribe ==
    /\ [](\A h \in Handlers : Rejected(h) => (pc[h] = "done" /\ cur[h] = NoSub))
    /\ [][\A h \in Handlers : (pc[h] = "idle" /\ pc'[h] = "done") =>
             \A m \in Methods : \A f \in BOOLEAN :
                 ((m # "GET" \/ ~f) /\ HandlerStart(h, m, f)) =>
                     /\ status'[h] = (IF m # "GET" THEN StatusNotAllowed ELSE StatusInternal)
                     /\ UNCHANGED <<closed, nextID, clients, subs, chans>>]_vars
    /\ [][\A h \in Handlers : (pc[h] = "idle" /\ pc'[h] \notin {"idle", "done"}) =>
             HandlerStart(h, "GET", TRUE)]_vars

C11_Witness ==
    /\ \E h \in Handlers : status[h] = StatusNotAllowed
    /\ \E h \in Handlers : status[h] = StatusInternal
    /\ ~closed /\ nextID = 0 /\ Len(subs) = 0

\* C12 (change detection): a tick whose read succeeds goes on to Notify()
\* exactly when the digest read differs from the stored one, and then
\* stores it; when they are equal the watcher is left as it was.  A watcher
\* comes to call Notify() in its loop only through such a tick, and that
\* call is Notify's body.
C12_ChangeDetection ==
    [][\A w \in Watchers :
          /\ WatcherTick(w, TRUE) =>
                 IF directoryFingerprint(dir) # watchers[w].lastFingerprint
                     THEN /\ watchers'[w].pc = "notify"
                          /\ watchers'[w].lastFingerprint = directoryFingerprint(dir)
                     ELSE watchers'[w] = watchers[w]
          /\ (watchers[w].pc # "notify" /\ watchers'[w].pc = "notify") =>
                 /\ WatcherTick(w, TRUE)
                 /\ directoryFingerprint(dir) # watchers[w].lastFingerprint
          /\ (watchers[w].pc = "notify" /\ watchers'[w].pc # "notify") =>
                 /\ WatcherNotify(w)
                 /\ chans' = NotifyBody.chans
                 /\ watchers'[w].lastFingerprint = watchers[w].lastFingerprint]_vars

C12_Witness ==
    /\ changes >= 1
    /\ ~closed
    /\ \E s \in Registered : chans[s].buf = 1
    /\ \E w \in Watchers :
          /\ watchers[w].pc = "loop"
          /\ watchers[w].lastDir = dir
          /\ watchers[w].lastFingerprint = directoryFingerprint(dir)

\* C13 (watcher I/O errors): a tick whose read fails changes no channel and
\* no stored fingerprint, and from it the watcher only goes back to its
\* loop; a watcher is at its return only when its context is cancelled.
C13_WatcherIOErrors ==
    /\ [](\A w \in Watchers :
             watchers[w].pc \in {"final", "exited"} => w \in cancelled)
    /\ [][\A w \in Watchers :
             /\ WatcherTick(w, FALSE) =>
                    /\ watchers'[w] = [watchers[w] EXCEPT !.pc = "failed"]
                    /\ UNCHANGED <<reloaderVars, chans>>
             /\ watchers[w].pc = "failed" =>
                    \/ watchers'[w] = watchers[w]
                    \/ /\ watchers'[w] = [watchers[w] EXCEPT !.pc = "loop"]
                       /\ UNCHANGED <<reloaderVars, chans>>]_vars

C13_Witness ==
    \E w, v \in Watchers :
        /\ watchers[w].pc = "failed"
        /\ watchers[w].lastFingerprint # NoFingerprint
        /\ watchers[w].lastDir # dir
        /\ w \notin cancelled
        /\ watchers[v].pc = "exited"

\* C17 (lock scope), as stated: in no state does a task hold the mutex with
\* a send on a subscriber's channel as its next statement.
Sending(t) == pc[t] = "notify" /\ ranging # {}

C17_NoSendUnderLock ==
    \A t \in Callers : ~(mu = t /\ Sending(t))

\* C17 as amended: the mutex is never held across a send that can wait.  The
\* task that holds it is in Notify, and whatever the channels hold it can
\* take its next statement: the send to any channel the loop has yet to
\* visit, or the unlock when none is left.
C17_LockNeverWaits ==
    \A t \in Callers :
        mu = t =>
            /\ pc[t] = "notify"
            /\ \A s \in ranging : ENABLED NotifySend(t, s)
            /\ ranging = {} => ENABLED NotifyUnlock(t)

C17_Witness ==
    \E t \in Callers :
        /\ mu = t
        /\ \E s \in ranging : chans[s].buf = ChanCap
        /\ \E s \in Registered \ ranging : chans[s].sent = 1

\* C18 (live entries are open and unique): every identifier in the map maps
\* to the open channel made for it, two identifiers never share a channel,
\* no identifier has been issued twice and all lie below nextID, a channel
\* Notify has yet to send to is open, nothing has panicked, and a release
\* changes no channel but its own.
C18_LiveEntries ==
    /\ [](/\ ~panicked
          /\ \A id \in DOMAIN clients :
                /\ clients[id] \in DOMAIN chans
                /\ chans[clients[id]].closes = 0
                /\ subs[clients[id]].id = id
          /\ \A i, j \in DOMAIN clients : i # j => clients[i] # clients[j]
          /\ \A s1, s2 \in DOMAIN chans : s1 # s2 => subs[s1].id # subs[s2].id
          /\ \A s \in DOMAIN chans : subs[s].id < nextID
          /\ \A s \in ranging : s \in Registered /\ chans[s].closes = 0)
    /\ [][\A t \in Callers :
             Release(t) =>
                 \A s \in DOMAIN chans : s # cur[t] => chans'[s] = chans[s]]_vars

C18_Witness ==
    /\ \E t \in Callers : mu = t
    /\ \E s \in ranging : chans[s].buf = 0
    /\ \E s \in DOMAIN chans : chans[s].closes = 1 /\ subs[s].once = "done"
    /\ \E s \in Registered : subs[s].id > 0

\* C19 (initial read failure): a watcher whose first read fails enters its
\* loop with the zero fingerprint stored; while the zero fingerprint is
\* stored a tick whose read fails stores nothing and changes no channel, and
\* the first tick whose read succeeds stores the digest read, which is not
\* the zero value, and goes on to Notify().
C19_InitialReadFailure ==
    [][\A w \in Watchers :
          /\ WatcherInit(w, FALSE) =>
                 /\ watchers'[w].pc = "loop"
                 /\ watchers'[w].lastFingerprint = NoFingerprint
          /\ (watchers[w].lastFingerprint = NoFingerprint /\ WatcherTick(w, TRUE)) =>
                 /\ watchers'[w].pc = "notify"
                 /\ watchers'[w].lastFingerprint = directoryFingerprint(dir)
                 /\ watchers'[w].lastFingerprint # NoFingerprint
          /\ (watchers[w].lastFingerprint = NoFingerprint /\ watchers[w].pc \in {"loop", "failed"}) =>
                 \/ watchers'[w].lastFingerprint # NoFingerprint /\ WatcherTick(w, TRUE)
                 \/ /\ watchers'[w].lastFingerprint = NoFingerprint
                    /\ watchers'[w].pc \in {"loop", "failed", "final"}
                    /\ (WatcherTick(w, FALSE) \/ WatcherContinue(w)) => UNCHANGED chans]_vars

C19_Witness ==
    /\ changes = 0
    /\ cancelled = {}
    /\ \E s \in Registered : chans[s].buf = 1
    /\ \E w \in Watchers :
          /\ watchers[w].pc = "loop"
          /\ watchers[w].lastFingerprint = directoryFingerprint(dir)
          /\ watchers[w].lastDir = dir
    /\ \E w \in Watchers :
          /\ watchers[w].pc = "failed"
          /\ watchers[w].lastFingerprint = NoFingerprint

\* C14 (terminal wakeup): a watcher leaves its loop only on its cancelled
\* context, and from there it runs Notify's body once and exits.  Once a
\* watcher has been cancelled, a state follows in which it has exited and
\* every handler is woken: its channel holds a signal or is closed, or the
\* handler is not waiting in its loop.  The cancellation is the first half
\* of Close(), made before closed is set.
Woken(h) ==
    \/ pc[h] # "loop"
    \/ chans[cur[h]].buf > 0
    \/ chans[cur[h]].closes > 0

C14_TerminalWakeup ==
    /\ [][/\ \A w \in Watchers :
                /\ (watchers[w].pc # "final" /\ watchers'[w].pc = "final") =>
                       (WatcherCtxDone(w) /\ w \in cancelled)
                /\ (watchers[w].pc = "final" /\ watchers'[w].pc # "final") =>
                       /\ WatcherFinalNotify(w)
                       /\ watchers'[w].pc = "exited"
                       /\ chans' = NotifyBody.chans
                /\ watchers'[w].pc = "exited" => watchers[w].pc \in {"final", "exited"}
          /\ cancelled' # cancelled => \E t \in Callers : CloseCancel(t)]_vars
    /\ (cancelled # {}) ~>
           /\ \A w \in cancelled : watchers[w].pc = "exited"
           /\ \A h \in Handlers : Woken(h)

C14_Witness ==
    /\ ~closed
    /\ \E w \in cancelled : watchers[w].pc = "exited"
    /\ \A h \in Handlers : pc[h] = "loop" /\ chans[cur[h]].buf = 1 /\ out[h].events = 0

\* C15 (end to end): with one watcher that has read the tree, a tick that
\* reads a changed tree goes on to Notify(), and that Notify() leaves one
\* signal in every registered channel; a client has never been sent, and
\* never holds, more events and signals together than the tree has been
\* changed (one more once the watcher is cancelled, for its last Notify());
\* and after a single change under a client that waits in its loop with
\* nothing sent yet, that client has been sent exactly one event in the end,
\* unless the tree changes again or the stream ends first.
Pending(h) ==
    (IF cur[h] \in DOMAIN chans THEN chans[cur[h]].buf ELSE 0)
        + (IF pc[h] = "write" THEN 1 ELSE 0)

Unseen(h) ==
    /\ changes = 1
    /\ cancelled = {}
    /\ Len(watchers) = 1
    /\ watchers[1].pc \in {"loop", "failed"}
    /\ watchers[1].lastFingerprint # directoryFingerprint(dir)
    /\ pc[h] = "loop"
    /\ out[h].events = 0
    /\ chans[cur[h]].buf = 0

Reloaded(h) ==
    \/ out[h].events = 1 /\ Pending(h) = 0
    \/ changes > 1
    \/ pc[h] \in {"cancel", "release", "done"}

C15_EndToEnd ==
    /\ [][\A w \in Watchers :
             /\ (WatcherTick(w, TRUE)
                   /\ directoryFingerprint(dir) # watchers[w].lastFingerprint) =>
                    watchers'[w].pc = "notify"
             /\ (WatcherNotify(w) /\ ~closed) =>
                    \A s \in Registered : chans'[s].buf = 1]_vars
    /\ [](\A h \in Handlers :
             out[h].events + Pending(h) <= changes + (IF cancelled = {} THEN 0 ELSE 1))
    /\ \A h \in Handlers : Unseen(h) ~> Reloaded(h)

C15_Witness ==
    /\ changes = 1
    /\ cancelled = {}
    /\ dir = {File(ATxt, 1, 5)}
    /\ Len(watchers) = 1
    /\ watchers[1].pc = "loop"
    /\ watchers[1].lastDir = dir
    /\ pc[Client] = "loop"
    /\ out[Client].events = 1
    /\ Pending(Client) = 0

\* the regular files of a tree, as (relative path, modification time, size)
RegularFiles(d) ==
    {[path |-> e.path, modTime |-> e.modTime, size |-> e.size] : e \in {o \in d : ~o.isDir}}

\* C16 (fingerprint exactness): the digest stored from one state of the tree
\* equals the digest of the tree as it is now if and only if the two states
\* hold the same regular files with the same (path, modification time,
\* size), whatever bytes the file names hold.
C16_FingerprintExact ==
    \A w \in Watchers :
        watchers[w].lastFingerprint # NoFingerprint =>
            (directoryFingerprint(dir) = watchers[w].lastFingerprint
                <=> RegularFiles(dir) = RegularFiles(watchers[w].lastDir))

\* C20 (watcher shutdown completeness): once Close() has been called, every
\* watcher started by a Start() call made before it exits in the end.
C20_WatcherShutdown ==
    CloseCalled ~> (\A w \in Watchers : watchers[w].pc = "exited")

TypeOK ==
    /\ closed \in BOOLEAN
    /\ nextID \in Nat
    /\ mu \in Tasks \cup {NoTask}
    /\ panicked \in BOOLEAN
    /\ callsLeft \in 0..MaxCalls
    /\ IsTree(dir)
    /\ changes \in 0..MaxChanges
    /\ Len(watchers) <= NumWatchers
    /\ ranging \subseteq DOMAIN chans

====
